---- MODULE Spec2Model ----
(***************************************************************************)
(* Serving control plane of the Faster-Whisper STT v2 package:             *)
(* WhisperModelRegistry, ResourceManager, STTService.transcribe_async and  *)
(* the worker-side transcribe_with_model / prepare_audio_input.            *)
(*                                                                         *)
(* Memory sizes are integers in thousandths of a GB (mGB); audio minutes   *)
(* are integers in tenths of a minute, so every product of the config      *)
(* tables is exact.                                                        *)
(*                                                                         *)
(* Scheduling: transcribe_async runs on one asyncio event loop.  `loop`    *)
(* names the task that currently runs on it; a task keeps the loop until   *)
(* it suspends (waits for a lock or semaphore, awaits the thread pool) or  *)
(* ends.  Worker threads and hardware readings move independently.         *)
(*                                                                         *)
(* Spec is the behaviour of NumReqs requests.  SpecCalc is one call of a   *)
(* function of ResourceManager, the registry, the resolution, the sizing   *)
(* step or the HTTP adapter, with arguments over its whole range.          *)
(* SpecFair is Spec with fair scheduling.  SpecMic is a MicRecorder: the   *)
(* thread that calls start_recording / stop_recording and the audio thread *)
(* that delivers chunks to the stream callback.                            *)
(***************************************************************************)
EXTENDS Integers, Sequences, FiniteSets, TLC

\* ------------------------------------------------------------------ bounds
NumReqs == 2                \* number of transcribe_async calls in a behaviour

Reqs == 1..NumReqs

MaxMicCalls == 4            \* calls of start_recording / stop_recording
MaxChunks == 3              \* chunks the audio thread delivers

\* ------------------------------------------------- config.py (tunables)
GPU_VRAM_MARGIN_GB == 1500
CPU_RAM_MARGIN_GB == 2000
DEFAULT_BEAM_BASELINE == 5
DEFAULT_GPU_CONCURRENCY == 1
DEFAULT_CPU_CONCURRENCY == 2

\* resident GB per model, in tenths of a GB; .get(model_name, 2.0)
MODEL_RESIDENT_GB(model_name) ==
    CASE model_name = "tiny"     -> 7
      [] model_name = "base"     -> 14
      [] model_name = "small"    -> 25
      [] model_name = "medium"   -> 50
      [] model_name = "large"    -> 100
      [] model_name = "large-v2" -> 110
      [] model_name = "large-v3" -> 120
      [] OTHER                   -> 20

\* precision multiplier, in tenths; .get(compute_type, 1.0)
COMPUTE_MULTIPLIER(compute_type) ==
    CASE compute_type = "float32" -> 20
      [] compute_type = "float16" -> 10
      [] compute_type = "int8"    -> 6
      [] OTHER                    -> 10

\* transient GB per audio minute, in tenths of a GB; .get(model_name, 0.3)
TRANSIENT_PER_MIN_GB(model_name) ==
    CASE model_name = "tiny"     -> 2
      [] model_name = "base"     -> 2
      [] model_name = "small"    -> 3
      [] model_name = "medium"   -> 5
      [] model_name = "large"    -> 8
      [] model_name = "large-v2" -> 9
      [] model_name = "large-v3" -> 10
      [] OTHER                   -> 3

Max(a, b) == IF a >= b THEN a ELSE b

\* ------------------------------------------------------------ hw_probe.py
\* a resolution that picks the compute type by the machine, not the device
resolve_auto_device_compute_by_machine(device, compute_type, cuda) ==
    LET d == IF device = "auto" THEN (IF cuda THEN "cuda" ELSE "cpu") ELSE device
        c == IF compute_type = "auto"
             THEN (IF cuda THEN "float16" ELSE "float32")
             ELSE compute_type
    IN  <<d, c>>

\* a resolution that settles the compute type only when the device was given
resolve_auto_device_compute_elif(device, compute_type, cuda) ==
    LET d == IF device = "auto" THEN (IF cuda THEN "cuda" ELSE "cpu") ELSE device
        c == IF device # "auto" /\ compute_type = "auto"
             THEN (IF d = "cuda" THEN "float16" ELSE "float32")
             ELSE compute_type
    IN  <<d, c>>

\* resolve_auto_device_compute; cuda is the value of is_cuda_available()
resolve_auto_device_compute(device, compute_type, cuda) ==
    LET d == IF device = "auto" THEN (IF cuda THEN "cuda" ELSE "cpu") ELSE device
        c == IF compute_type = "auto"
             THEN (IF d = "cuda" THEN "float16" ELSE "float32")
             ELSE compute_type
    IN  <<d, c>>

\* ------------------------------------------------------------ registry.py
\* _key without the two clamps
_key_unclamped(model_name, device, compute_type, cuda) ==
    LET dc == resolve_auto_device_compute(device, compute_type, cuda)
    IN  [model_name |-> model_name, device |-> dc[1], compute_type |-> dc[2]]

\* WhisperModelRegistry._key: resolve, then clamp device and compute type
_key(model_name, device, compute_type, cuda) ==
    LET dc == resolve_auto_device_compute(device, compute_type, cuda)
        d  == IF dc[1] \in {"cpu", "cuda"} THEN dc[1] ELSE "cpu"
        c  == IF dc[2] \in {"float32", "float16", "int8"} THEN dc[2]
              ELSE (IF d = "cpu" THEN "float32" ELSE "float16")
    IN  [model_name |-> model_name, device |-> d, compute_type |-> c]

\* ------------------------------------------------------------ types.py
NoKey == [model_name |-> "", device |-> "", compute_type |-> ""]
NoEst == [resident_gb |-> 0, transient_gb |-> 0]
NoSnap == [gpu_present |-> FALSE, gpu_free_gb |-> 0, ram_available_gb |-> 0]
NoCalc == [op |-> "none"]

\* ------------------------------------------------------------- service.py
\* STTService._estimate_audio_minutes: 1.0 minute whatever the audio
_estimate_audio_minutes(audio_input) == 10

\* a sizing that divides whatever duration the options hold
request_audio_minutes_unchecked(has_duration, duration_seconds, audio_input) ==
    IF has_duration
    THEN (duration_seconds * 10) \div 60
    ELSE _estimate_audio_minutes(audio_input)

\* transcribe_async lines 53-56: the audio minutes a request is sized with,
\* in tenths of a minute, from options["duration_seconds"] (seconds; a
\* multiple of 6, so that the division is exact) when the option is there
\* and positive
request_audio_minutes(has_duration, duration_seconds, audio_input) ==
    IF has_duration /\ duration_seconds > 0
    THEN (duration_seconds * 10) \div 60
    ELSE _estimate_audio_minutes(audio_input)

\* ----------------------------------------------------------- resources.py
\* ResourceManager.probe: the readings packaged; a reading that is missing
\* is represented by the default its readers use (snap.get(..., 0.0))
probe(h) ==
    [gpu_present      |-> h.gpu_present,
     gpu_free_gb      |-> IF h.gpu_present THEN h.gpu_free_gb ELSE 0,
     ram_available_gb |-> h.ram_available_gb]

\* an estimate whose transient cost has no floor
estimate_unfloored(model_name, compute_type, audio_minutes, beam_size) ==
    LET base_resident  == MODEL_RESIDENT_GB(model_name)
        precision_mult == COMPUTE_MULTIPLIER(compute_type)
        base_transient == TRANSIENT_PER_MIN_GB(model_name)
        beam5          == Max(DEFAULT_BEAM_BASELINE, beam_size)
    IN  [resident_gb  |-> base_resident * precision_mult * 10,
         transient_gb |-> (base_transient * Max(2, audio_minutes) * beam5 * 1000)
                             \div (10 * 10 * DEFAULT_BEAM_BASELINE)]

\* ResourceManager.estimate; audio_minutes in tenths of a minute, result mGB
estimate(model_name, compute_type, audio_minutes, beam_size) ==
    LET base_resident  == MODEL_RESIDENT_GB(model_name)
        precision_mult == COMPUTE_MULTIPLIER(compute_type)
        base_transient == TRANSIENT_PER_MIN_GB(model_name)
        \* beam_scale = max(1.0, beam_size / 5) = beam5 / 5
        beam5          == Max(DEFAULT_BEAM_BASELINE, beam_size)
    IN  [resident_gb  |-> base_resident * precision_mult * 10,
         \* tenths of a GB * tenths of a minute * beam5 / 5, in mGB
         transient_gb |-> Max(100, (base_transient * Max(2, audio_minutes) * beam5 * 1000)
                                    \div (10 * 10 * DEFAULT_BEAM_BASELINE))]

\* an admission test that charges the resident cost to loaded models only
can_accept_charging_loaded(device, est, is_loaded, snap) ==
    LET resident == IF is_loaded THEN est.resident_gb ELSE 0
        need     == resident + est.transient_gb
    IN  IF device = "cuda"
        THEN IF ~snap.gpu_present THEN <<FALSE, "GPU not present">>
             ELSE IF need <= Max(0, snap.gpu_free_gb - GPU_VRAM_MARGIN_GB)
                  THEN <<TRUE, "none">>
                  ELSE <<FALSE, "Insufficient VRAM">>
        ELSE IF need <= Max(0, snap.ram_available_gb - CPU_RAM_MARGIN_GB)
             THEN <<TRUE, "none">>
             ELSE <<FALSE, "Insufficient RAM">>

\* an admission test that also turns away a request that fits exactly
can_accept_strict(device, est, is_loaded, snap) ==
    LET resident == IF is_loaded THEN 0 ELSE est.resident_gb
        need     == resident + est.transient_gb
    IN  IF device = "cuda"
        THEN IF ~snap.gpu_present THEN <<FALSE, "GPU not present">>
             ELSE IF need < Max(0, snap.gpu_free_gb - GPU_VRAM_MARGIN_GB)
                  THEN <<TRUE, "none">>
                  ELSE <<FALSE, "Insufficient VRAM">>
        ELSE IF need < Max(0, snap.ram_available_gb - CPU_RAM_MARGIN_GB)
             THEN <<TRUE, "none">>
             ELSE <<FALSE, "Insufficient RAM">>

\* ResourceManager.can_accept on a given snapshot: <<ok, reason>>
can_accept(device, est, is_loaded, snap) ==
    LET resident == IF is_loaded THEN 0 ELSE est.resident_gb
        need     == resident + est.transient_gb
    IN  IF device = "cuda"
        THEN IF ~snap.gpu_present THEN <<FALSE, "GPU not present">>
             ELSE IF need <= Max(0, snap.gpu_free_gb - GPU_VRAM_MARGIN_GB)
                  THEN <<TRUE, "none">>
                  ELSE <<FALSE, "Insufficient VRAM">>
        ELSE IF need <= Max(0, snap.ram_available_gb - CPU_RAM_MARGIN_GB)
             THEN <<TRUE, "none">>
             ELSE <<FALSE, "Insufficient RAM">>

\* a hint that is the bare quotient free / transient
concurrency_hint_unfloored(device, est, snap) ==
    LET transient == Max(est.transient_gb, 100)
    IN  IF device = "cuda"
        THEN IF ~snap.gpu_present THEN 0
             ELSE Max(0, snap.gpu_free_gb - GPU_VRAM_MARGIN_GB) \div transient
        ELSE Max(0, snap.ram_available_gb - CPU_RAM_MARGIN_GB) \div transient

\* ResourceManager.concurrency_hint on a given snapshot
concurrency_hint(device, est, snap) ==
    LET transient == Max(est.transient_gb, 100)
    IN  IF device = "cuda"
        THEN IF ~snap.gpu_present THEN 0
             ELSE IF transient <= 0 THEN DEFAULT_GPU_CONCURRENCY
             ELSE Max(1, Max(0, snap.gpu_free_gb - GPU_VRAM_MARGIN_GB) \div transient)
        ELSE IF transient <= 0 THEN DEFAULT_CPU_CONCURRENCY
             ELSE Max(1, Max(0, snap.ram_available_gb - CPU_RAM_MARGIN_GB) \div transient)

\* ResourceManager.admit_or_raise, with snap the reading can_accept probes:
\* the estimate, or ResourceRejectedError with can_accept's reason
admit_or_raise(device, model_name, compute_type, audio_minutes, beam_size, is_loaded, snap) ==
    LET est == estimate(model_name, compute_type, audio_minutes, beam_size)
        acc == can_accept(device, est, is_loaded, snap)
    IN  IF ~acc[1]
        THEN [raised |-> TRUE, reason |-> acc[2], est |-> NoEst]
        ELSE [raised |-> FALSE, reason |-> "none", est |-> est]

\* ------------------------------------------------------------- inputs
\* What a caller may pass to transcribe_async.
ModelNames == {"base"}
DeviceInputs == {"auto", "cpu", "cuda", "tpu"}
ComputeInputs == {"auto", "int8", "bf16"}
\* audio_input: a path, bytes holding WAV PCM, bytes holding something else,
\* an ndarray with ndim = 1, an ndarray with ndim = 2, any other object
AudioInputs == {"path", "wav_bytes", "other_bytes", "array_1d", "array_2d", "object"}
\* options["duration_seconds"], in seconds; the option is always passed, as
\* stt_api does (`duration_seconds or 0.0`, 0 when the query has none)
DurationInputs == {0, 300}
BeamInputs == {5}

\* The key and sizing arguments are read on the event loop only and the
\* audio arguments by the worker only, so the calls of a behaviour vary one
\* group with the other at the defaults of stt_api.py (lines 43-52).
CallInputs ==
    {[model_name |-> n, device |-> d, compute_type |-> c, duration |-> dur,
      beam_size |-> b, audio_input |-> "wav_bytes", decode_wav_bytes |-> TRUE] :
         n \in ModelNames, d \in DeviceInputs, c \in ComputeInputs,
         dur \in DurationInputs, b \in BeamInputs}
    \cup
    {[model_name |-> "base", device |-> "auto", compute_type |-> "auto",
      duration |-> 0, beam_size |-> 5, audio_input |-> a, decode_wav_bytes |-> dec] :
         a \in AudioInputs, dec \in BOOLEAN}

\* Readings the hardware probe may return (mGB).  Free memory moves under
\* the process, so every probe draws its readings anew: little free memory
\* or much.  The machine itself (torch and pynvml both absent / pynvml only /
\* both present) stays.
FreeLevels == {[gpu_free_gb |-> 1000, ram_available_gb |-> 1000],
               [gpu_free_gb |-> 4000, ram_available_gb |-> 4500]}
Machines == {[cuda_available |-> FALSE, gpu_present |-> FALSE],
             [cuda_available |-> FALSE, gpu_present |-> TRUE],
             [cuda_available |-> TRUE,  gpu_present |-> TRUE]}
Readings(m) ==
    {[gpu_present |-> m.gpu_present,
      gpu_free_gb |-> IF m.gpu_present THEN f.gpu_free_gb ELSE 0,
      ram_available_gb |-> f.ram_available_gb] : f \in FreeLevels}

\* How a caller may cancel a task that awaits run_in_threadpool:
\* "task": asyncio's Task.cancel (asyncio.wait_for, shutdown), which throws
\*         CancelledError into the task at its await;
\* "scope": an anyio cancel scope, which anyio.to_thread.run_sync (behind
\*         run_in_threadpool, abandon_on_cancel false) holds back until the
\*         worker has completed.
CancelKinds == {"task", "scope"}


\* -------------------------------------------------------------- state
VARIABLES
    hw,          \* the machine: is_cuda_available(), GPU visible to the probe
    models,      \* WhisperModelRegistry._models: ModelKey -> model reference
    locks,       \* WhisperModelRegistry._locks: ModelKey -> locked?
    semaphores,  \* WhisperModelRegistry._semaphores: ModelKey -> [value, capacity]
    ctor_log,    \* every WhisperModel(...) invocation so far: [key, by, ok]
    loop,        \* the task running on the event loop: {} or {r}
    task,        \* per call of transcribe_async: position and locals
    worker,      \* per call: the thread-pool job running transcribe_with_model
    disk,        \* temp files on disk, named by the call that created them
    calc,        \* the last call of a function made outside a request
    is_recording,  \* MicRecorder.is_recording
    stream,        \* MicRecorder.stream: 0 is None, n the n-th stream opened
    frames,        \* MicRecorder.frames: the chunks collected, oldest first
    pa_streams,    \* the streams PyAudio has opened: [status, callback, delivered]
    pa_chunks,     \* the number of chunks the audio thread has delivered
    mic_ctl        \* the thread calling the recorder: position, last call, result

MicVars == <<is_recording, stream, frames, pa_streams, pa_chunks, mic_ctl>>

vars == <<hw, models, locks, semaphores, ctor_log, loop, task, worker, disk, calc,
          MicVars>>

\* model references are 1, 2, ...; 0 is "no model"
IdleTask ==
    [pc |-> "idle", model_name |-> "", device |-> "", compute_type |-> "",
     audio_input |-> "", decode_wav_bytes |-> TRUE, beam_size |-> 0,
     duration |-> 0, is_loaded |-> FALSE, audio_minutes |-> 0, est |-> NoEst,
     decided_on |-> NoSnap, reason |-> "none", concurrency |-> 0,
     key |-> NoKey, model |-> 0, holds |-> FALSE, cancelled |-> FALSE,
     outcome |-> "none", snapshot |-> NoSnap]

\* the job: its arguments, the state of the prepare_audio_input generator,
\* and what the call has done so far
IdleWorker ==
    [wpc |-> "idle", model |-> 0, audio_input |-> "", decode_wav_bytes |-> TRUE,
     audio |-> "none", temp_file_path |-> FALSE, in_decode_try |-> FALSE,
     scope_open |-> FALSE, created_temp |-> FALSE, unlink_failed |-> FALSE,
     lib_calls |-> 0, lib_raised |-> FALSE, result |-> "none"]

\* Locals that the rest of the call never reads again are put back to their
\* initial values: what a task keeps once it has its model ...
Loaded(t, key, model) ==
    [IdleTask EXCEPT !.pc = "acquire", !.key = key, !.model = model,
                     !.audio_input = t.audio_input,
                     !.decode_wav_bytes = t.decode_wav_bytes,
                     !.beam_size = t.beam_size,
                     !.concurrency = t.concurrency]

\* ... what it keeps while it awaits the worker ...
Awaiting(t) ==
    [IdleTask EXCEPT !.pc = "await_worker", !.holds = TRUE,
                     !.key = t.key, !.model = t.model]

\* ... and once it has ended
Ended(t, outcome) ==
    [IdleTask EXCEPT !.pc = "done", !.outcome = outcome,
                     !.cancelled = t.cancelled]

\* the calling thread between two calls of the recorder; `returned` is what
\* the last call gave back ("None", "bytes" with the bytes in `data`, or
\* "raised")
IdleCtl == [pc |-> "idle", op |-> "none", returned |-> "None", data |-> <<>>,
            calls |-> 0]

Init ==
    /\ hw \in Machines
    /\ models = <<>>
    /\ locks = <<>>
    /\ semaphores = <<>>
    /\ ctor_log = <<>>
    /\ loop = {}
    /\ task = [r \in Reqs |-> IdleTask]
    /\ worker = [r \in Reqs |-> IdleWorker]
    /\ disk = {}
    /\ calc = NoCalc
    /\ is_recording = FALSE
    /\ stream = 0
    /\ frames = <<>>
    /\ pa_streams = <<>>
    /\ pa_chunks = 0
    /\ mic_ctl = IdleCtl

\* a dict assignment, map[k] = v, in the place of setdefault
SetDefault_Overwrite(map, k, v) ==
    [x \in DOMAIN map \cup {k} |-> IF x = k THEN v ELSE map[x]]

\* dict.setdefault(k, v)
SetDefault(map, k, v) == IF k \in DOMAIN map THEN map ELSE map @@ (k :> v)

\* --------------------------------------- service.py: transcribe_async
\* The synchronous stretch from the call to the first suspension, in steps.

\* a start that looks the model up under the key as resolved, not clamped
Start_LoadedUnclamped(r) ==
    /\ loop = {}
    /\ task[r].pc = "idle"
    /\ \A q \in Reqs : q < r => task[q].pc # "idle"
    /\ \E in \in CallInputs :
          LET rdc == resolve_auto_device_compute(in.device, in.compute_type,
                                                 hw.cuda_available)
              k   == _key(in.model_name, rdc[1], rdc[2], hw.cuda_available)
          IN  task' = [task EXCEPT ![r] =
                     [@ EXCEPT !.pc = "admit",
                               !.model_name = in.model_name,
                               !.device = rdc[1],
                               !.compute_type = rdc[2],
                               !.audio_input = in.audio_input,
                               !.decode_wav_bytes = in.decode_wav_bytes,
                               !.beam_size = in.beam_size,
                               !.duration = in.duration,
                               !.is_loaded =
                                   (_key_unclamped(in.model_name, rdc[1], rdc[2],
                                                   hw.cuda_available)
                                       \in DOMAIN models),
                               !.audio_minutes =
                                   request_audio_minutes(TRUE, in.duration,
                                                         in.audio_input)]]
    /\ loop' = {r}
    /\ UNCHANGED <<hw, models, locks, semaphores, ctor_log, worker, disk, calc, MicVars>>

\* lines 39-56 with a registry whose is_loaded inserts the key's lock
Start_Inserting(r) ==
    /\ loop = {}
    /\ task[r].pc = "idle"
    /\ \A q \in Reqs : q < r => task[q].pc # "idle"
    /\ \E in \in CallInputs :
          LET rdc == resolve_auto_device_compute(in.device, in.compute_type,
                                                 hw.cuda_available)
              k   == _key(in.model_name, rdc[1], rdc[2], hw.cuda_available)
          IN  /\ task' = [task EXCEPT ![r] =
                     [@ EXCEPT !.pc = "admit",
                               !.model_name = in.model_name,
                               !.device = rdc[1],
                               !.compute_type = rdc[2],
                               !.audio_input = in.audio_input,
                               !.decode_wav_bytes = in.decode_wav_bytes,
                               !.beam_size = in.beam_size,
                               !.duration = in.duration,
                               !.is_loaded = (k \in DOMAIN models),
                               !.audio_minutes =
                                   request_audio_minutes(TRUE, in.duration,
                                                         in.audio_input)]]
              /\ locks' = SetDefault(locks, k, FALSE)
    /\ loop' = {r}
    /\ UNCHANGED <<hw, models, semaphores, ctor_log, worker, disk, calc, MicVars>>

\* lines 39-56: merge the options, resolve (device, compute_type), ask the
\* registry is_loaded (registry.py lines 32-34), size the audio (1.0 minute
\* unless duration_seconds > 0).  Calls are interchangeable, so they start
\* in the order of their numbers.
Start(r) ==
    /\ loop = {}
    /\ task[r].pc = "idle"
    /\ \A q \in Reqs : q < r => task[q].pc # "idle"
    /\ \E in \in CallInputs :
          LET rdc == resolve_auto_device_compute(in.device, in.compute_type,
                                                 hw.cuda_available)
              k   == _key(in.model_name, rdc[1], rdc[2], hw.cuda_available)
          IN  task' = [task EXCEPT ![r] =
                  [@ EXCEPT !.pc = "admit",
                            !.model_name = in.model_name,
                            !.device = rdc[1],
                            !.compute_type = rdc[2],
                            !.audio_input = in.audio_input,
                            !.decode_wav_bytes = in.decode_wav_bytes,
                            !.beam_size = in.beam_size,
                            !.duration = in.duration,
                            !.is_loaded = (k \in DOMAIN models),
                            !.audio_minutes =
                                request_audio_minutes(TRUE, in.duration,
                                                      in.audio_input)]]
    /\ loop' = {r}
    /\ UNCHANGED <<hw, models, locks, semaphores, ctor_log, worker, disk, calc, MicVars>>

\* resources.py admit_or_raise, lines 88-89: estimate, can_accept on a probe
Admit(r) ==
    /\ loop = {r}
    /\ task[r].pc = "admit"
    /\ \E h \in Readings(hw) :
          LET t    == task[r]
              est  == estimate(t.model_name, t.compute_type, t.audio_minutes, t.beam_size)
              snap == probe(h)
              acc  == can_accept(t.device, est, t.is_loaded, snap)
          IN  task' = [task EXCEPT ![r] =
                  [@ EXCEPT !.pc = IF acc[1] THEN "hint" ELSE "reject",
                            !.est = est,
                            \* the snapshot dies with can_accept unless
                            \* the rejection is still to be raised
                            !.decided_on = IF acc[1] THEN NoSnap ELSE snap,
                            !.reason = acc[2]]]
    /\ UNCHANGED <<hw, models, locks, semaphores, ctor_log, loop, worker, disk, calc, MicVars>>

\* resources.py admit_or_raise, lines 90-95: probe again, raise
\* ResourceRejectedError(reason, snap); transcribe_async ends with it
Reject(r) ==
    /\ loop = {r}
    /\ task[r].pc = "reject"
    /\ \E h \in Readings(hw) :
          task' = [task EXCEPT ![r] =
              [Ended(task[r], "ResourceRejectedError") EXCEPT
                        !.reason = task[r].reason,
                        !.decided_on = task[r].decided_on,
                        !.snapshot = probe(h)]]
    /\ loop' = {}
    /\ UNCHANGED <<hw, models, locks, semaphores, ctor_log, worker, disk, calc, MicVars>>

\* service.py line 71: concurrency = max(1, concurrency_hint(device, est)),
\* on a probe of its own
Hint(r) ==
    /\ loop = {r}
    /\ task[r].pc = "hint"
    /\ \E h \in Readings(hw) :
          task' = [task EXCEPT ![r] =
              [@ EXCEPT !.pc = "get_or_create",
                        !.concurrency =
                            Max(1, concurrency_hint(task[r].device, task[r].est, probe(h)))]]
    /\ UNCHANGED <<hw, models, locks, semaphores, ctor_log, loop, worker, disk, calc, MicVars>>

\* ------------------------------------------ registry.py: get_or_create
\* a registry that never finds the key
InModels_Never(key) == FALSE

\* lines 45 and 50: `key in self._models`
InModels(key) == key \in DOMAIN models

\* lines 44-51: the key, the fast path, the per-key lock, the double check.
\* A task that finds the lock taken suspends (pc "wait_lock") and comes back
\* here when the loop is free and the lock released.
GetOrCreate(r) ==
    /\ \/ loop = {r} /\ task[r].pc = "get_or_create"
       \/ /\ loop = {} /\ task[r].pc = "wait_lock"
          /\ ~locks[task[r].key]
    /\ LET t   == task[r]
           key == IF t.pc = "wait_lock" THEN t.key
                  ELSE _key(t.model_name, t.device, t.compute_type, hw.cuda_available)
       IN  IF t.pc = "get_or_create" /\ InModels(key)
           THEN \* fast path
                /\ task' = [task EXCEPT ![r] = Loaded(t, key, models[key])]
                /\ loop' = {r}
                /\ UNCHANGED locks
           ELSE LET lk == SetDefault(locks, key, FALSE)
                IN  IF lk[key]
                    THEN \* the lock is held: wait for it
                         /\ task' = [task EXCEPT ![r] =
                                [@ EXCEPT !.pc = "wait_lock", !.key = key]]
                         /\ loop' = {}
                         /\ locks' = lk
                    ELSE IF InModels(key)
                    THEN \* double check under the lock: loaded meanwhile
                         /\ task' = [task EXCEPT ![r] = Loaded(t, key, models[key])]
                         /\ loop' = {r}
                         /\ locks' = lk
                    ELSE /\ task' = [task EXCEPT ![r] =
                                [@ EXCEPT !.pc = "construct", !.key = key]]
                         /\ loop' = {r}
                         /\ locks' = [lk EXCEPT ![key] = TRUE]
    /\ UNCHANGED <<hw, models, semaphores, ctor_log, worker, disk, calc, MicVars>>

\* a construction that leaves the build lock taken when the library raises
Construct_KeepLockOnRaise(r) ==
    /\ loop = {r}
    /\ task[r].pc = "construct"
    /\ LET key == task[r].key
           ref == Len(ctor_log) + 1
       IN  \E ok \in BOOLEAN :
             /\ ctor_log' = Append(ctor_log, [key |-> key, by |-> r, ok |-> ok])
             /\ locks' = [locks EXCEPT ![key] = ~ok]
             /\ IF ok
                THEN /\ models' = [k \in DOMAIN models \cup {key} |->
                                      IF k = key THEN ref ELSE models[k]]
                     /\ semaphores' =
                          SetDefault(semaphores, key,
                              LET c == IF task[r].concurrency # 0
                                       THEN task[r].concurrency ELSE 1
                              IN  [value |-> c, capacity |-> c])
                     /\ task' = [task EXCEPT ![r] = Loaded(task[r], key, ref)]
                     /\ loop' = {r}
                ELSE /\ task' = [task EXCEPT ![r] = Ended(task[r], "ConstructError")]
                     /\ loop' = {}
                     /\ UNCHANGED <<models, semaphores>>
    /\ UNCHANGED <<hw, worker, disk, calc, MicVars>>

\* lines 52-56: WhisperModel(...) runs on the event loop, under the lock.
\* It returns a new model, which is published together with the semaphore
\* asyncio.Semaphore(concurrency or 1), or it raises; the lock is released
\* either way.
Construct(r) ==
    /\ loop = {r}
    /\ task[r].pc = "construct"
    /\ LET key == task[r].key
           ref == Len(ctor_log) + 1
       IN  \E ok \in BOOLEAN :
             /\ ctor_log' = Append(ctor_log, [key |-> key, by |-> r, ok |-> ok])
             /\ locks' = [locks EXCEPT ![key] = FALSE]
             /\ IF ok
                THEN /\ models' = [k \in DOMAIN models \cup {key} |->
                                      IF k = key THEN ref ELSE models[k]]
                     /\ semaphores' =
                          SetDefault(semaphores, key,
                              LET c == IF task[r].concurrency # 0
                                       THEN task[r].concurrency ELSE 1
                              IN  [value |-> c, capacity |-> c])
                     /\ task' = [task EXCEPT ![r] = Loaded(task[r], key, ref)]
                     /\ loop' = {r}
                ELSE /\ task' = [task EXCEPT ![r] = Ended(task[r], "ConstructError")]
                     /\ loop' = {}
                     /\ UNCHANGED <<models, semaphores>>
    /\ UNCHANGED <<hw, worker, disk, calc, MicVars>>

\* an acquire that waits while the permits of any key are used up
Acquire_GlobalGate(r) ==
    /\ \/ loop = {r} /\ task[r].pc = "acquire"
       \/ /\ loop = {} /\ task[r].pc = "wait_sem"
          /\ semaphores[task[r].key].value > 0
    /\ LET key == task[r].key
           sem == SetDefault(semaphores, key, [value |-> 1, capacity |-> 1])
       IN  IF \A k \in DOMAIN sem : sem[k].value > 0
           THEN /\ semaphores' = [sem EXCEPT ![key].value = @ - 1]
                /\ task' = [task EXCEPT ![r] = Awaiting(task[r])]
                /\ worker' = [worker EXCEPT ![r] =
                       [@ EXCEPT !.wpc = "prepare",
                                 !.model = task[r].model,
                                 !.audio_input = task[r].audio_input,
                                 !.decode_wav_bytes = task[r].decode_wav_bytes]]
           ELSE /\ semaphores' = sem
                /\ task' = [task EXCEPT ![r] =
                       [@ EXCEPT !.pc = "wait_sem", !.concurrency = 0]]
                /\ UNCHANGED worker
    /\ loop' = {}
    /\ UNCHANGED <<hw, models, locks, ctor_log, disk, calc, MicVars>>

\* registry.py get_semaphore (line 59) and service.py lines 74-76: take a
\* permit of the key's semaphore, or wait for one (pc "wait_sem"); with the
\* permit, hand transcribe_with_model to the thread pool and await it.
Acquire(r) ==
    /\ \/ loop = {r} /\ task[r].pc = "acquire"
       \/ /\ loop = {} /\ task[r].pc = "wait_sem"
          /\ semaphores[task[r].key].value > 0
    /\ LET key == task[r].key
           sem == SetDefault(semaphores, key, [value |-> 1, capacity |-> 1])
       IN  IF sem[key].value > 0
           THEN /\ semaphores' = [sem EXCEPT ![key].value = @ - 1]
                /\ task' = [task EXCEPT ![r] = Awaiting(task[r])]
                /\ worker' = [worker EXCEPT ![r] =
                       [@ EXCEPT !.wpc = "prepare",
                                 !.model = task[r].model,
                                 !.audio_input = task[r].audio_input,
                                 !.decode_wav_bytes = task[r].decode_wav_bytes]]
           ELSE /\ semaphores' = sem
                /\ task' = [task EXCEPT ![r] =
                       [@ EXCEPT !.pc = "wait_sem", !.concurrency = 0]]
                /\ UNCHANGED worker
    /\ loop' = {}
    /\ UNCHANGED <<hw, models, locks, ctor_log, disk, calc, MicVars>>

\* a cancellation that hands the waiter's place back as a permit
Cancel_ReleasingWaiter(r) ==
    /\ loop = {}
    /\ \/ /\ task[r].pc \in {"wait_lock", "wait_sem"}
          /\ task' = [task EXCEPT ![r] =
                 [Ended(task[r], "CancelledError") EXCEPT !.cancelled = TRUE]]
          /\ semaphores' = IF task[r].pc = "wait_sem"
                           THEN [semaphores EXCEPT ![task[r].key].value = @ + 1]
                           ELSE semaphores
       \/ /\ task[r].pc = "await_worker"
          /\ ~task[r].cancelled
          /\ \E how \in CancelKinds :
                IF how = "task"
                THEN /\ task' = [task EXCEPT ![r] =
                            [Ended(task[r], "CancelledError") EXCEPT !.cancelled = TRUE]]
                     /\ semaphores' = [semaphores EXCEPT ![task[r].key].value = @ + 1]
                ELSE /\ task' = [task EXCEPT ![r] = [@ EXCEPT !.cancelled = TRUE]]
                     /\ UNCHANGED semaphores
    /\ UNCHANGED <<hw, models, locks, ctor_log, loop, worker, disk, calc, MicVars>>

\* The caller goes away while the task is suspended (service.py lines 75-86).
\* A task waiting for the lock or the semaphore gets CancelledError at its
\* await and ends.  A task awaiting run_in_threadpool either gets
\* CancelledError at the await, leaves `async with sem` (release) and ends
\* while the worker thread runs on, or has the cancellation held back until
\* the worker has completed (CancelKinds).
Cancel(r) ==
    /\ loop = {}
    /\ \/ /\ task[r].pc \in {"wait_lock", "wait_sem"}
          /\ task' = [task EXCEPT ![r] =
                 [Ended(task[r], "CancelledError") EXCEPT !.cancelled = TRUE]]
          /\ UNCHANGED semaphores
       \/ /\ task[r].pc = "await_worker"
          /\ ~task[r].cancelled
          /\ \E how \in CancelKinds :
                IF how = "task"
                THEN /\ task' = [task EXCEPT ![r] =
                            [Ended(task[r], "CancelledError") EXCEPT !.cancelled = TRUE]]
                     /\ semaphores' = [semaphores EXCEPT ![task[r].key].value = @ + 1]
                ELSE /\ task' = [task EXCEPT ![r] = [@ EXCEPT !.cancelled = TRUE]]
                     /\ UNCHANGED semaphores
    /\ UNCHANGED <<hw, models, locks, ctor_log, loop, worker, disk, calc, MicVars>>

\* a completion that returns the permit only when the worker succeeded
Complete_KeepOnError(r) ==
    /\ loop = {}
    /\ task[r].pc = "await_worker"
    /\ worker[r].wpc = "finished"
    /\ semaphores' = IF worker[r].result = "ok"
                     THEN [semaphores EXCEPT ![task[r].key].value = @ + 1]
                     ELSE semaphores
    /\ task' = [task EXCEPT ![r] =
           Ended(task[r], IF task[r].cancelled THEN "CancelledError"
                          ELSE worker[r].result)]
    /\ UNCHANGED <<hw, models, locks, ctor_log, loop, worker, disk, calc, MicVars>>

\* service.py lines 75-86: the worker has completed; the task resumes,
\* leaves `async with sem` (release) and ends with the worker's result or
\* error, or with CancelledError if a cancellation was held back.
Complete(r) ==
    /\ loop = {}
    /\ task[r].pc = "await_worker"
    /\ worker[r].wpc = "finished"
    /\ semaphores' = [semaphores EXCEPT ![task[r].key].value = @ + 1]
    /\ task' = [task EXCEPT ![r] =
           Ended(task[r], IF task[r].cancelled THEN "CancelledError"
                          ELSE worker[r].result)]
    /\ UNCHANGED <<hw, models, locks, ctor_log, loop, worker, disk, calc, MicVars>>

\* ------------------------------ the worker thread: transcribe_with_model
\* os.unlink of the call's temp file: the file goes, or unlink raises OSError
\* (swallowed, audio_io.py lines 151-154) and the file stays
UnlinkOutcomes == {"removed", "unlink_failed"}

\* tmp.write(audio_input), audio_io.py lines 120 and 126
WriteOutcomes == {"written", "write_failed"}

\* what is left of a job once transcribe_with_model has returned or raised
Returned(w, result) ==
    [IdleWorker EXCEPT !.wpc = "finished", !.result = result,
                       !.created_temp = w.created_temp,
                       !.unlink_failed = w.unlink_failed,
                       !.lib_calls = w.lib_calls,
                       !.lib_raised = w.lib_raised]

\* a preparation that passes any array on, whatever its dimensions
prepare_audio_input_any_array(audio_input, decode_wav_bytes) ==
    CASE audio_input = "path" -> "path"
      [] audio_input = "wav_bytes" /\ decode_wav_bytes -> "decoded"
      [] audio_input \in {"wav_bytes", "other_bytes"} -> "temp"
      [] audio_input \in {"array_1d", "array_2d"} -> "array"
      [] OTHER -> "TypeError"

\* audio_io.py prepare_audio_input, lines 107-147: the branch taken for an
\* input, up to its first yield or raise.  Bytes that decode as WAV are
\* yielded as an array from inside the inner try; other bytes, and all bytes
\* when decode_wav_bytes is false, go to a temp file.
prepare_audio_input(audio_input, decode_wav_bytes) ==
    CASE audio_input = "path" -> "path"
      [] audio_input = "wav_bytes" /\ decode_wav_bytes -> "decoded"
      [] audio_input \in {"wav_bytes", "other_bytes"} -> "temp"
      [] audio_input = "array_1d" -> "array"
      [] audio_input = "array_2d" -> "ValueError"
      [] OTHER -> "TypeError"

\* transcription.py line 29: entering `with prepare_audio_input(...)`
Prepare(r) ==
    /\ worker[r].wpc = "prepare"
    /\ LET w == worker[r]
           b == prepare_audio_input(w.audio_input, w.decode_wav_bytes)
       IN  CASE b = "path" ->
                 \E exists \in BOOLEAN :
                    /\ worker' = [worker EXCEPT ![r] =
                          IF exists
                          THEN [w EXCEPT !.wpc = "transcribe", !.audio = "path",
                                         !.scope_open = TRUE]
                          ELSE Returned(w, "FileNotFoundError")]
                    /\ UNCHANGED disk
             [] b = "decoded" ->
                    /\ worker' = [worker EXCEPT ![r] =
                          [w EXCEPT !.wpc = "transcribe", !.audio = "array",
                                    !.in_decode_try = TRUE, !.scope_open = TRUE]]
                    /\ UNCHANGED disk
             [] b = "temp" ->
                 \E wr \in WriteOutcomes :
                    /\ disk' = disk \cup {r}
                    /\ worker' = [worker EXCEPT ![r] =
                          IF wr = "written"
                          THEN [w EXCEPT !.wpc = "transcribe", !.audio = "temp",
                                         !.temp_file_path = TRUE,
                                         !.created_temp = TRUE,
                                         !.scope_open = TRUE]
                          \* temp_file_path is still None: the finally
                          \* clause has nothing to unlink
                          ELSE Returned([w EXCEPT !.created_temp = TRUE], "OSError")]
             [] b = "array" ->
                    /\ worker' = [worker EXCEPT ![r] =
                          [w EXCEPT !.wpc = "transcribe", !.audio = "array",
                                    !.scope_open = TRUE]]
                    /\ UNCHANGED disk
             [] OTHER ->
                    /\ worker' = [worker EXCEPT ![r] = Returned(w, b)]
                    /\ UNCHANGED disk
    /\ UNCHANGED <<hw, models, locks, semaphores, ctor_log, loop, task, calc, MicVars>>

\* transcription.py lines 30-39 and the exit of the with block.
\* model.transcribe returns: the generator resumes after its yield and runs
\* the finally clause.  model.transcribe raises: the RuntimeError
\* "Transcription failed: ..." is thrown into the generator at its yield.
\* At the yield of line 116 it is caught by `except Exception` (line 117),
\* which writes the temp file and yields again, so the with statement fails
\* with "generator didn't stop after throw()"; the generator is closed (and
\* its finally clause run) then or when it is collected.  At the other
\* yields it passes through the finally clause.
Transcribe(r) ==
    /\ worker[r].wpc = "transcribe"
    /\ LET w == [worker[r] EXCEPT !.lib_calls = @ + 1, !.scope_open = FALSE]
       IN  \E raises \in BOOLEAN, wr \in WriteOutcomes, un \in UnlinkOutcomes,
              closed \in BOOLEAN :
             IF raises /\ w.in_decode_try
             THEN /\ un = "removed" \/ (wr = "written" /\ closed)
                  /\ closed \/ wr = "written"
                  /\ wr = "written" \/ closed
                  /\ LET w2 == [w EXCEPT !.lib_raised = TRUE, !.created_temp = TRUE,
                                         !.unlink_failed = (wr = "written" /\ closed
                                                            /\ un = "unlink_failed")]
                     IN  /\ worker' = [worker EXCEPT ![r] =
                               Returned(w2, IF wr = "written" THEN "GeneratorDidNotStop"
                                            ELSE "OSError")]
                         /\ disk' = IF wr = "written" /\ closed /\ un = "removed"
                                    THEN disk \ {r} ELSE disk \cup {r}
             ELSE /\ wr = "written" /\ closed
                  /\ un = "removed" \/ w.temp_file_path
                  /\ LET w2 == [w EXCEPT !.lib_raised = raises,
                                         !.unlink_failed = (un = "unlink_failed")]
                     IN  /\ worker' = [worker EXCEPT ![r] =
                               IF raises THEN Returned(w2, "TranscriptionFailed")
                               ELSE [Returned(w2, "none") EXCEPT !.wpc = "collect"]]
                         /\ disk' = IF un = "removed" THEN disk \ {r} ELSE disk
    /\ UNCHANGED <<hw, models, locks, semaphores, ctor_log, loop, task, calc, MicVars>>

\* transcription.py lines 41-62: the segments are consumed after the with
\* block; an error raised while iterating them is not wrapped
Collect(r) ==
    /\ worker[r].wpc = "collect"
    /\ \E raises \in BOOLEAN :
          worker' = [worker EXCEPT ![r] =
              Returned(worker[r], IF raises THEN "LibraryError" ELSE "ok")]
    /\ UNCHANGED <<hw, models, locks, semaphores, ctor_log, loop, task, disk, calc, MicVars>>

Next ==
    \E r \in Reqs :
       \/ Start(r) \/ Admit(r) \/ Reject(r) \/ Hint(r)
       \/ GetOrCreate(r) \/ Construct(r) \/ Acquire(r)
       \/ Cancel(r) \/ Complete(r)
       \/ Prepare(r) \/ Transcribe(r) \/ Collect(r)

Spec == Init /\ [][Next]_vars

\* The event loop runs a task that is ready and the thread pool a job that
\* was dispatched; every construction and every inference returns or
\* raises: a step that can be taken is taken in the end.
\* A cancellation is the caller's choice and nothing makes it happen.
Progress ==
    \E r \in Reqs :
       \/ Start(r) \/ Admit(r) \/ Reject(r) \/ Hint(r)
       \/ GetOrCreate(r) \/ Construct(r) \/ Acquire(r)
       \/ Complete(r)
       \/ Prepare(r) \/ Transcribe(r) \/ Collect(r)

\* Whether a call ends does not hang on the machine: the fair behaviours
\* are those of the machine with a GPU, where a request for any device can
\* be admitted.
InitFair == Init /\ hw = [cuda_available |-> TRUE, gpu_present |-> TRUE]

SpecFair == InitFair /\ [][Next]_vars /\ WF_vars(Progress)

\* ------------------------------------------------- apps/stt_api.py
\* how a call of transcribe_async made by the adapter can end: with a
\* result, with one of the errors of the request model for bytes audio, or
\* cancelled
FacadeOutcomes == {"ok", "ResourceRejectedError", "ConstructError", "OSError",
                   "TranscriptionFailed", "GeneratorDidNotStop", "LibraryError",
                   "CancelledError"}

\* an adapter that answers 500 to errors other than a rejection
transcribe_answering_500(read_ok, outcome) ==
    IF ~read_ok
    THEN [status |-> 400, invoked |-> FALSE]
    ELSE IF outcome = "ok" THEN [status |-> 200, invoked |-> TRUE]
    ELSE IF outcome = "CancelledError" THEN [status |-> 0, invoked |-> TRUE]
    ELSE IF outcome = "ResourceRejectedError" THEN [status |-> 503, invoked |-> TRUE]
    ELSE [status |-> 500, invoked |-> TRUE]

\* stt_api.py transcribe, lines 54-83: read the upload (failure: 400, and
\* the handler is left), await the facade (any Exception: 503), answer 200.
\* CancelledError is no Exception: it leaves the handler and nothing is
\* answered (status 0).  outcome is how the facade ends if it is invoked.
transcribe(read_ok, outcome) ==
    IF ~read_ok
    THEN [status |-> 400, invoked |-> FALSE]
    ELSE IF outcome = "ok" THEN [status |-> 200, invoked |-> TRUE]
    ELSE IF outcome = "CancelledError" THEN [status |-> 0, invoked |-> TRUE]
    ELSE [status |-> 503, invoked |-> TRUE]

\* --------------------------------- the functions, called on their own
\* ResourceManager, the registry's _key and the resolution are public and
\* are called here with arguments of their whole range, outside a request:
\* one call in a behaviour, recorded in calc with its arguments and result.
RequestVars == <<hw, models, locks, semaphores, ctor_log, loop, task, worker, disk>>

CalcModelNames == {"tiny", "base", "small", "medium", "large", "large-v2",
                   "large-v3", "whisper-x"}
CalcComputeTypes == {"float32", "float16", "int8", "bf16"}
\* audio minutes in tenths of a minute
CalcMinutes == {0, 1, 2, 5, 10, 50}
CalcBeams == {1, 4, 5, 6, 10, 100}
CalcDevices == {"cpu", "cuda", "tpu"}
\* what the probe may read (mGB); ram 0 is the reading of a machine without
\* psutil.  3600 / 3100 and 2200 / 1700 are the readings that "base",
\* float16, one minute, beam 5 fits exactly, not loaded and loaded.
CalcReadings ==
    {[gpu_present |-> g, gpu_free_gb |-> v, ram_available_gb |-> m] :
        g \in BOOLEAN, v \in {0, 1700, 3100, 8000}, m \in {0, 2200, 3600, 16000}}
\* the requests admission is asked about
CalcAdmissions ==
    {[device |-> d, model_name |-> n, compute_type |-> c, audio_minutes |-> m,
      beam_size |-> b, is_loaded |-> l] :
        d \in CalcDevices, n \in {"base", "large", "whisper-x"},
        c \in {"float16", "int8"}, m \in {2, 10, 50}, b \in {5, 10},
        l \in BOOLEAN}

\* device and compute_type strings a caller may pass
CalcDeviceInputs == {"auto", "cpu", "cuda", "tpu", ""}
CalcComputeInputs == {"auto", "float32", "float16", "int8", "bf16", ""}

\* the estimates can_accept and concurrency_hint are asked about: those of
\* estimate, and the empty one
CalcEstimates ==
    {estimate(n, c, m, b) : n \in {"base", "large", "whisper-x"},
                            c \in {"float16", "int8"}, m \in {2, 10, 50},
                            b \in {5, 10}}
    \cup {NoEst}

\* admit_or_raise(...) with the probe reading h
CallAdmitOrRaise ==
    /\ calc = NoCalc
    /\ \E a \in CalcAdmissions, h \in CalcReadings :
          calc' = [op |-> "admit_or_raise", in |-> a, snap |-> probe(h),
                   out |-> admit_or_raise(a.device, a.model_name, a.compute_type,
                                          a.audio_minutes, a.beam_size,
                                          a.is_loaded, probe(h))]
    /\ UNCHANGED <<RequestVars, MicVars>>

\* can_accept(device, est, False, snap) and can_accept(device, est, True,
\* snap) on the same device, estimate and snapshot
CallCanAccept ==
    /\ calc = NoCalc
    /\ \E d \in CalcDevices, est \in CalcEstimates, h \in CalcReadings :
          calc' = [op |-> "can_accept", device |-> d, est |-> est, snap |-> probe(h),
                   not_loaded |-> can_accept(d, est, FALSE, probe(h)),
                   loaded |-> can_accept(d, est, TRUE, probe(h))]
    /\ UNCHANGED <<RequestVars, MicVars>>

\* concurrency_hint(device, est, snap)
CallConcurrencyHint ==
    /\ calc = NoCalc
    /\ \E d \in CalcDevices, est \in CalcEstimates, h \in CalcReadings :
          calc' = [op |-> "concurrency_hint", device |-> d, est |-> est,
                   snap |-> probe(h), out |-> concurrency_hint(d, est, probe(h))]
    /\ UNCHANGED <<RequestVars, MicVars>>

\* resolve_auto_device_compute(device, compute_type), and the same applied
\* to its own result, on a machine whose is_cuda_available() stays
CallResolve ==
    /\ calc = NoCalc
    /\ \E d \in CalcDeviceInputs, c \in CalcComputeInputs :
          LET out == resolve_auto_device_compute(d, c, hw.cuda_available)
          IN  calc' = [op |-> "resolve", device |-> d, compute_type |-> c,
                       out |-> out,
                       again |-> resolve_auto_device_compute(out[1], out[2],
                                                             hw.cuda_available)]
    /\ UNCHANGED <<RequestVars, MicVars>>

\* WhisperModelRegistry._key(model_name, device, compute_type), and the same
\* applied to the fields of its own result
CallKey ==
    /\ calc = NoCalc
    /\ \E n \in CalcModelNames, d \in CalcDeviceInputs, c \in CalcComputeInputs :
          LET out == _key(n, d, c, hw.cuda_available)
          IN  calc' = [op |-> "_key", model_name |-> n, device |-> d,
                       compute_type |-> c, out |-> out,
                       again |-> _key(out.model_name, out.device, out.compute_type,
                                      hw.cuda_available)]
    /\ UNCHANGED <<RequestVars, MicVars>>

\* estimate(model_name, compute_type, audio_minutes, beam_size)
CallEstimate ==
    /\ calc = NoCalc
    /\ \E n \in CalcModelNames, c \in CalcComputeTypes, mins \in CalcMinutes,
          b \in CalcBeams :
          calc' = [op |-> "estimate", model_name |-> n, compute_type |-> c,
                   audio_minutes |-> mins, beam_size |-> b,
                   out |-> estimate(n, c, mins, b)]
    /\ UNCHANGED <<RequestVars, MicVars>>

\* options["duration_seconds"] a caller may pass, in seconds
CalcDurations == {-60, 0, 6, 12, 60, 300, 3600}

\* the sizing step of transcribe_async, for options with and without
\* duration_seconds
CallSizing ==
    /\ calc = NoCalc
    /\ \E has \in BOOLEAN, d \in CalcDurations, a \in AudioInputs :
          calc' = [op |-> "sizing", has_duration |-> has,
                   duration_seconds |-> IF has THEN d ELSE 0, audio_input |-> a,
                   out |-> request_audio_minutes(has, d, a)]
    /\ UNCHANGED <<RequestVars, MicVars>>

\* POST /transcribe
CallTranscribeHttp ==
    /\ calc = NoCalc
    /\ \E read_ok \in BOOLEAN, outcome \in FacadeOutcomes :
          calc' = [op |-> "http", read_ok |-> read_ok, outcome |-> outcome,
                   out |-> transcribe(read_ok, outcome)]
    /\ UNCHANGED <<RequestVars, MicVars>>

\* the admission path of transcribe_async (service.py lines 53-72) for a
\* first request on a key that is not loaded, which installs the semaphore
\* with max(1, concurrency_hint), and a later request on the same key, now
\* loaded, while the probe keeps returning the same reading h
CallSteadyState ==
    /\ calc = NoCalc
    /\ \E d \in {"cpu", "cuda"}, n \in {"base", "large"}, c \in {"float16", "int8"},
          m1 \in {2, 10, 50}, m2 \in {2, 10, 50}, h \in CalcReadings :
          LET first  == admit_or_raise(d, n, c, m1, DEFAULT_BEAM_BASELINE,
                                       FALSE, probe(h))
              second == admit_or_raise(d, n, c, m2, DEFAULT_BEAM_BASELINE,
                                       TRUE, probe(h))
          IN  calc' = [op |-> "steady_state", device |-> d, model_name |-> n,
                       compute_type |-> c, snap |-> probe(h),
                       first |-> first, second |-> second,
                       capacity |-> IF first.raised THEN 0
                                    ELSE Max(1, concurrency_hint(d, first.est,
                                                                 probe(h)))]
    /\ UNCHANGED <<RequestVars, MicVars>>

\* the concurrency argument of get_or_create; 0 stands for None
CalcConcurrencies == {0, 1, 2, 4}

\* a registry of its own, called directly: get_semaphore(key) or not, then
\* get_or_create(..., concurrency = c) publishing the model (registry.py
\* lines 52-55), then get_semaphore(key) (line 59)
CallRegistry ==
    /\ calc = NoCalc
    /\ \E earlier \in BOOLEAN, c \in CalcConcurrencies, d \in {"cpu", "cuda"} :
          LET key       == _key("base", d, "int8", hw.cuda_available)
              fresh     == [k \in {} |-> [value |-> 1, capacity |-> 1]]
              before    == IF earlier
                           THEN SetDefault(fresh, key, [value |-> 1, capacity |-> 1])
                           ELSE fresh
              cap       == IF c # 0 THEN c ELSE 1
              published == SetDefault(before, key, [value |-> cap, capacity |-> cap])
              after     == SetDefault(published, key, [value |-> 1, capacity |-> 1])
          IN  calc' = [op |-> "registry", key |-> key,
                       earlier_get_semaphore |-> earlier, concurrency |-> c,
                       out |-> after[key]]
    /\ UNCHANGED <<RequestVars, MicVars>>

NextCalc ==
    \/ CallAdmitOrRaise
    \/ CallCanAccept
    \/ CallConcurrencyHint
    \/ CallResolve
    \/ CallKey
    \/ CallEstimate
    \/ CallSizing
    \/ CallTranscribeHttp
    \/ CallSteadyState
    \/ CallRegistry

SpecCalc == Init /\ [][NextCalc]_vars

\* ------------------------------------- mic_recorder.py: MicRecorder
\* One thread calls start_recording and stop_recording, one call after the
\* other; PortAudio's audio thread runs the stream callback.  A stream
\* opened in callback mode is started by audio.open itself, and
\* stop_stream returns once the callback will not run again.
AllVarsButMic == <<RequestVars, calc>>

\* the bytes of the n-th chunk the audio thread delivers
Payload(n) == [i \in 1..n |-> n]

\* b"".join(chunks)
RECURSIVE Join(_)
Join(chunks) ==
    IF chunks = <<>> THEN <<>> ELSE Head(chunks) \o Join(Tail(chunks))

\* a start_recording that opens a stream whatever is_recording says
StartRecording_Reopening(callback) ==
    /\ mic_ctl.pc = "idle"
    /\ mic_ctl.calls < MaxMicCalls
    /\ \E opens \in BOOLEAN :
          IF opens
          THEN /\ pa_streams' = Append(pa_streams,
                      [status |-> "active", callback |-> callback,
                       delivered |-> <<>>])
               /\ stream' = Len(pa_streams) + 1
               /\ mic_ctl' = [mic_ctl EXCEPT !.pc = "set_flag",
                                             !.op = "start_recording",
                                             !.calls = @ + 1]
          ELSE /\ mic_ctl' = [mic_ctl EXCEPT !.op = "start_recording",
                                             !.returned = "raised",
                                             !.data = <<>>,
                                             !.calls = @ + 1]
               /\ UNCHANGED <<stream, pa_streams>>
    /\ UNCHANGED <<is_recording, frames, pa_chunks, AllVarsButMic>>

\* start_recording, lines 118-146: return at once when already recording;
\* otherwise audio.open(..., stream_callback=audio_callback), which gives a
\* running stream or raises (logged and raised again, lines 151-153)
StartRecording(callback) ==
    /\ mic_ctl.pc = "idle"
    /\ mic_ctl.calls < MaxMicCalls
    /\ IF is_recording
       THEN /\ mic_ctl' = [mic_ctl EXCEPT !.op = "start_recording",
                                          !.returned = "None",
                                          !.data = <<>>,
                                          !.calls = @ + 1]
            /\ UNCHANGED <<stream, pa_streams>>
       ELSE \E opens \in BOOLEAN :
               IF opens
               THEN /\ pa_streams' = Append(pa_streams,
                           [status |-> "active", callback |-> callback,
                            delivered |-> <<>>])
                    /\ stream' = Len(pa_streams) + 1
                    /\ mic_ctl' = [mic_ctl EXCEPT !.pc = "set_flag",
                                                  !.op = "start_recording",
                                                  !.calls = @ + 1]
               ELSE /\ mic_ctl' = [mic_ctl EXCEPT !.op = "start_recording",
                                                  !.returned = "raised",
                                                  !.data = <<>>,
                                                  !.calls = @ + 1]
                    /\ UNCHANGED <<stream, pa_streams>>
    /\ UNCHANGED <<is_recording, frames, pa_chunks, AllVarsButMic>>

\* start_recording, line 147: self.is_recording = True
SetFlag ==
    /\ mic_ctl.pc = "set_flag"
    /\ is_recording' = TRUE
    /\ mic_ctl' = [mic_ctl EXCEPT !.pc = "clear"]
    /\ UNCHANGED <<stream, frames, pa_streams, pa_chunks, AllVarsButMic>>

\* start_recording, lines 148-150: self.frames.clear() under the lock, return
ClearFrames ==
    /\ mic_ctl.pc = "clear"
    /\ frames' = <<>>
    /\ mic_ctl' = [mic_ctl EXCEPT !.pc = "idle", !.returned = "None",
                                  !.data = <<>>]
    /\ UNCHANGED <<is_recording, stream, pa_streams, pa_chunks, AllVarsButMic>>

\* a stop_recording that leaves the stream running
StopRecording_NotClosing ==
    /\ mic_ctl.pc = "idle"
    /\ mic_ctl.calls < MaxMicCalls
    /\ IF ~is_recording
       THEN /\ mic_ctl' = [mic_ctl EXCEPT !.op = "stop_recording",
                                          !.returned = "bytes",
                                          !.data = <<>>,
                                          !.calls = @ + 1]
            /\ UNCHANGED is_recording
       ELSE /\ is_recording' = FALSE
            /\ mic_ctl' = [mic_ctl EXCEPT !.op = "stop_recording",
                                          !.returned = "bytes",
                                          !.data = Join(frames),
                                          !.calls = @ + 1]
    /\ UNCHANGED <<stream, frames, pa_streams, pa_chunks, AllVarsButMic>>

\* stop_recording, lines 157-170: b"" when not recording; otherwise
\* stop_stream and close on the stream, is_recording = False, and the
\* frames joined under the lock.  The step is the return of stop_stream,
\* after which the callback does not run and the frames do not change.
StopRecording ==
    /\ mic_ctl.pc = "idle"
    /\ mic_ctl.calls < MaxMicCalls
    /\ IF ~is_recording
       THEN /\ mic_ctl' = [mic_ctl EXCEPT !.op = "stop_recording",
                                          !.returned = "bytes",
                                          !.data = <<>>,
                                          !.calls = @ + 1]
            /\ UNCHANGED <<is_recording, pa_streams>>
       ELSE /\ pa_streams' = IF stream # 0
                             THEN [pa_streams EXCEPT ![stream].status = "closed"]
                             ELSE pa_streams
            /\ is_recording' = FALSE
            /\ mic_ctl' = [mic_ctl EXCEPT !.op = "stop_recording",
                                          !.returned = "bytes",
                                          !.data = Join(frames),
                                          !.calls = @ + 1]
    /\ UNCHANGED <<stream, frames, pa_chunks, AllVarsButMic>>

\* audio_callback, lines 122-134, run by the audio thread on a running
\* stream: the chunk goes to the user's callback, or, without one, to the
\* end of self.frames under the lock.  A callback that raises ends the
\* stream (paComplete).
AudioCallback ==
    /\ pa_chunks < MaxChunks
    /\ \E s \in 1..Len(pa_streams) :
          /\ pa_streams[s].status = "active"
          /\ LET in_data == Payload(pa_chunks + 1)
             IN  IF pa_streams[s].callback
                 THEN \E raises \in BOOLEAN :
                         /\ pa_streams' = [pa_streams EXCEPT
                                ![s].delivered = Append(@, in_data),
                                ![s].status = IF raises THEN "complete" ELSE @]
                         /\ UNCHANGED frames
                 ELSE /\ pa_streams' = [pa_streams EXCEPT
                             ![s].delivered = Append(@, in_data)]
                      /\ frames' = Append(frames, in_data)
    /\ pa_chunks' = pa_chunks + 1
    /\ UNCHANGED <<is_recording, stream, mic_ctl, AllVarsButMic>>

NextMic ==
    \/ \E callback \in BOOLEAN : StartRecording(callback)
    \/ SetFlag
    \/ ClearFrames
    \/ StopRecording
    \/ AudioCallback

SpecMic == Init /\ [][NextMic]_vars

\* ------------------------------------------------------------ properties
\* the calls whose worker-side transcribe_with_model has been dispatched
\* with the model stored under key k and has not finished
InFlight(k) ==
    {r \in Reqs : /\ worker[r].wpc \in {"prepare", "transcribe", "collect"}
                  /\ k \in DOMAIN models
                  /\ worker[r].model = models[k]}

\* the calls that are between acquire and release of key k's semaphore
Holders(k) == {r \in Reqs : task[r].holds /\ task[r].key = k}

\* C1, as stated: for calls on the same key with the model not yet loaded,
\* the library's constructor is invoked exactly once for the key (no two
\* invocations in the whole behaviour are for the same key).
C1_ConstructedExactlyOnce ==
    \A i, j \in 1..Len(ctor_log) :
        i # j => ctor_log[i].key # ctor_log[j].key

\* C1, amended: the constructor is invoked again for a key only after every
\* earlier invocation for that key raised, so at most one invocation per key
\* returns a model; every caller that has received a model holds the
\* reference returned by that invocation, which is the one the registry
\* stores for the key.
C1_ConstructedOnceUnlessRaised ==
    /\ \A i, j \in 1..Len(ctor_log) :
          (i < j /\ ctor_log[i].key = ctor_log[j].key) => ~ctor_log[i].ok
    /\ \A r \in Reqs :
          task[r].model # 0 =>
             /\ task[r].key \in DOMAIN models
             /\ task[r].model = models[task[r].key]
             /\ \E i \in 1..Len(ctor_log) :
                   /\ ctor_log[i].key = task[r].key
                   /\ ctor_log[i].ok
                   /\ task[r].model = i

\* two callers hold the model of the same key, constructed once
C1_Witness ==
    /\ \A r \in Reqs : task[r].model # 0 /\ task[r].key = task[1].key
    /\ Len(ctor_log) = 1

\* C2, as stated: for every key, the number of worker-side inferences
\* dispatched and not yet finished is at most the capacity of the key's
\* semaphore.
C2_InFlightWithinCapacity ==
    \A k \in DOMAIN semaphores :
        Cardinality(InFlight(k)) <= semaphores[k].capacity

\* C3: a permit taken is given back on every way out of the call (result,
\* inference error, cancellation): for every key the available permits are
\* the capacity less the calls between acquire and release, so they never
\* exceed the capacity and equal it when no call is in between.
C3_PermitsReturned ==
    \A k \in DOMAIN semaphores :
        /\ semaphores[k].value = semaphores[k].capacity - Cardinality(Holders(k))
        /\ semaphores[k].value <= semaphores[k].capacity
        /\ Holders(k) = {} => semaphores[k].value = semaphores[k].capacity

\* one call has ended with an inference error and the other with a
\* cancellation after its inference ran; all permits are back
C3_Witness ==
    /\ \E r \in Reqs : /\ task[r].outcome = "TranscriptionFailed"
                       /\ worker[r].wpc = "finished"
    /\ \E r \in Reqs : /\ task[r].outcome = "CancelledError"
                       /\ worker[r].lib_calls > 0
    /\ DOMAIN semaphores # {}
    /\ \A k \in DOMAIN semaphores : semaphores[k].value = semaphores[k].capacity

\* C4, as stated: a call cancelled while its worker runs keeps its permit
\* until the worker has completed.
C4_PermitHeldWhileWorkerRuns ==
    \A r \in Reqs :
        (task[r].cancelled /\ worker[r].wpc \in {"prepare", "transcribe", "collect"})
            => task[r].holds

\* C5: a call cancelled while it waits for the semaphore or the build lock
\* never held a permit, has had nothing dispatched to a worker and has no
\* temp file; the step that cancels it changes neither the registry, the
\* workers nor the disk; and with such a call gone the permits of every key
\* are still the capacity less the calls between acquire and release (the
\* capacity, once the inference that saturated the semaphore has completed).
C5_CancelledWaiterLeavesNoTrace ==
    /\ [](\A r \in Reqs :
            (task[r].outcome = "CancelledError" /\ worker[r].wpc = "idle") =>
               /\ ~task[r].holds
               /\ worker[r] = IdleWorker
               /\ r \notin disk
               /\ \A i \in 1..Len(ctor_log) : ctor_log[i].by # r
               /\ \A k \in DOMAIN semaphores :
                     semaphores[k].value + Cardinality(Holders(k))
                         = semaphores[k].capacity)
    /\ [][\A r \in Reqs :
            (task[r].pc \in {"wait_lock", "wait_sem"} /\ task'[r].pc = "done") =>
               /\ ~task[r].holds
               /\ UNCHANGED <<models, locks, semaphores, ctor_log, worker, disk>>]_vars

\* a waiter was cancelled, the call that held the permit has completed its
\* inference, and the permits are back at capacity
C5_Witness ==
    /\ task[2].outcome = "CancelledError" /\ worker[2].wpc = "idle"
    /\ task[1].pc = "done" /\ worker[1].wpc = "finished" /\ worker[1].lib_calls > 0
    /\ \A k \in DOMAIN semaphores : semaphores[k].value = semaphores[k].capacity

\* C6: a call rejected by admit_or_raise has had no constructor invoked for
\* it and nothing dispatched, and none of its steps up to the rejection
\* changes the registry's models, locks or semaphores.
C6_RejectionLeavesRegistryAlone ==
    /\ [](\A r \in Reqs :
            task[r].outcome = "ResourceRejectedError" =>
               /\ \A i \in 1..Len(ctor_log) : ctor_log[i].by # r
               /\ worker[r] = IdleWorker
               /\ ~task[r].holds)
    /\ [][\A r \in Reqs :
            (task[r].pc \in {"idle", "admit", "reject"} /\ task'[r] # task[r]) =>
               UNCHANGED <<models, locks, semaphores, ctor_log>>]_vars

\* the second call is rejected while the first, whose model and semaphore
\* the registry holds, awaits its worker
C6_Witness ==
    /\ task[2].outcome = "ResourceRejectedError"
    /\ task[1].pc = "await_worker"
    /\ task[1].key \in DOMAIN models \cap DOMAIN semaphores

\* C7, as stated: a call with an array that is not 1-D never gets as far as
\* constructing the model, taking a permit or dispatching to a worker.
C7_RejectedBeforeModelWork ==
    \A r \in Reqs :
        /\ task[r].audio_input = "array_2d"
              => task[r].pc \notin {"construct", "acquire", "wait_sem"}
        /\ worker[r].audio_input # "array_2d"

\* C8, as stated (leaving aside a failed unlink, which is swallowed): once
\* a call has ended, no temp file it created is on disk.
C8_NoTempFileRemains ==
    \A r \in Reqs :
        (task[r].pc = "done" /\ worker[r].wpc \in {"idle", "finished"}
           /\ ~worker[r].unlink_failed)
            => r \notin disk

\* C9, as stated: when the library's transcribe has raised,
\* transcribe_with_model fails with "Transcription failed: ..." and with
\* nothing else.
C9_LibraryErrorWrapped ==
    \A r \in Reqs :
        (worker[r].wpc = "finished" /\ worker[r].lib_raised)
            => worker[r].result = "TranscriptionFailed"

\* C10: every key in the registry's models, locks and semaphores has device
\* cpu or cuda and compute type float32, float16 or int8, whatever strings
\* the call was made with.
C10_KeysResolved ==
    \A k \in DOMAIN models \cup DOMAIN locks \cup DOMAIN semaphores :
        /\ k.device \in {"cpu", "cuda"}
        /\ k.compute_type \in {"float32", "float16", "int8"}

\* a call made with an unrecognised device and compute type has its key in
\* the lock map and is about to construct, with another model already stored
C10_Witness ==
    /\ \E r \in Reqs : /\ task[r].pc = "construct"
                       /\ task[r].device = "tpu"
                       /\ task[r].compute_type = "bf16"
                       /\ task[r].key \in DOMAIN locks
    /\ DOMAIN models # {}

\* C11: admit_or_raise raises ResourceRejectedError if and only if the
\* needed memory, transient plus resident unless the model is loaded, is
\* strictly more than free - margin of the snapshot probed: GPU memory and
\* the GPU margin when the device is cuda (free counting as 0 without a
\* GPU), RAM and the RAM margin otherwise.
C11_RejectedIffNeedExceedsFree ==
    calc.op = "admit_or_raise" =>
        LET a    == calc.in
            est  == estimate(a.model_name, a.compute_type, a.audio_minutes, a.beam_size)
            need == (IF a.is_loaded THEN 0 ELSE est.resident_gb) + est.transient_gb
            free == IF a.device = "cuda"
                    THEN calc.snap.gpu_free_gb - GPU_VRAM_MARGIN_GB
                    ELSE calc.snap.ram_available_gb - CPU_RAM_MARGIN_GB
        IN  /\ calc.out.raised <=> need > free
            /\ ~calc.out.raised => calc.out.est = est

\* a request that fits exactly is admitted
C11_Witness ==
    /\ calc.op = "admit_or_raise"
    /\ ~calc.out.raised
    /\ calc.in.device = "cuda"
    /\ calc.out.est.resident_gb + calc.out.est.transient_gb
          = calc.snap.gpu_free_gb - GPU_VRAM_MARGIN_GB

\* C12: on the same device, estimate and snapshot, can_accept with
\* is_loaded true accepts whenever can_accept with is_loaded false accepts.
C12_LoadedAcceptsWhenUnloadedDoes ==
    calc.op = "can_accept" => (calc.not_loaded[1] => calc.loaded[1])

\* an estimate with a resident cost is accepted on cuda for a model that
\* is not loaded
C12_Witness ==
    /\ calc.op = "can_accept"
    /\ calc.device = "cuda"
    /\ calc.est.resident_gb > 0
    /\ calc.not_loaded[1]

\* C13: concurrency_hint returns 0 exactly when cuda is asked for and the
\* snapshot reports no GPU; for every other device, estimate and snapshot,
\* free memory below the margin included, it returns at least 1.
C13_HintAtLeastOne ==
    calc.op = "concurrency_hint" =>
        /\ calc.out >= 0
        /\ calc.out = 0 <=> (calc.device = "cuda" /\ ~calc.snap.gpu_present)
        /\ (calc.device # "cuda" \/ calc.snap.gpu_present) => calc.out >= 1

\* the hint is 1 on a GPU whose free memory is below the margin
C13_Witness ==
    /\ calc.op = "concurrency_hint"
    /\ calc.device = "cuda"
    /\ calc.snap.gpu_present
    /\ calc.snap.gpu_free_gb < GPU_VRAM_MARGIN_GB
    /\ calc.out = 1

\* C14: a semaphore installed for a key stays installed with the capacity
\* it was given: no step, in particular no later get_or_create with another
\* concurrency value and no get_semaphore, changes the capacity of a key
\* that has one.
C14_CapacityNeverChanges ==
    [][\A k \in DOMAIN semaphores :
          /\ k \in DOMAIN semaphores'
          /\ semaphores'[k].capacity = semaphores[k].capacity]_vars

\* a later call has come back from get_or_create, to which it passed a
\* concurrency other than the capacity the key's semaphore has
C14_Witness ==
    \E r \in Reqs :
        /\ task[r].pc = "acquire"
        /\ task[r].key \in DOMAIN semaphores
        /\ task[r].concurrency # 0
        /\ task[r].concurrency # semaphores[task[r].key].capacity

\* C15: when the library raises during construction the call ends with
\* that error, the key's build lock is released, no model and no semaphore
\* is stored for the key; a build lock is only ever held by a call that is
\* constructing, so the next get_or_create for a key that has no model
\* goes on to construct again.
C15_FailedConstructionRetried ==
    /\ [](/\ \A k \in DOMAIN locks :
                locks[k] => \E r \in Reqs : task[r].pc = "construct" /\ task[r].key = k
          /\ \A r \in Reqs :
                task[r].outcome = "ConstructError" =>
                    \E i \in 1..Len(ctor_log) : ctor_log[i].by = r /\ ~ctor_log[i].ok)
    /\ [][\A r \in Reqs :
            (task[r].pc = "construct" /\ task'[r].outcome = "ConstructError") =>
               /\ task'[r].pc = "done"
               /\ ~locks'[task[r].key]
               /\ models' = models
               /\ semaphores' = semaphores
               /\ Len(ctor_log') = Len(ctor_log) + 1]_vars
    /\ [][\A r \in Reqs :
            (task[r].pc = "get_or_create" /\ task'[r].pc # "get_or_create"
               /\ task'[r].key \notin DOMAIN models) =>
               task'[r].pc = "construct"]_vars

\* the constructor raised for a key, and the next call for the same key
\* invoked it again and got its model
C15_Witness ==
    /\ Len(ctor_log) = 2
    /\ ~ctor_log[1].ok
    /\ ctor_log[2].ok
    /\ ctor_log[1].key = ctor_log[2].key
    /\ ctor_log[1].by # ctor_log[2].by
    /\ ctor_log[2].key \in DOMAIN models

\* C16: the resolution of (device, compute_type) applied to its own result
\* gives that result again, for every pair of strings, on a machine whose
\* GPU availability does not change; so does the registry's key
\* canonicalisation.
C16_ResolveIdempotent ==
    calc.op \in {"resolve", "_key"} => calc.again = calc.out

\* ("auto", "auto") has been resolved to ("cuda", "float16"), and resolved
\* again
C16_Witness ==
    /\ calc.op = "resolve"
    /\ calc.device = "auto"
    /\ calc.compute_type = "auto"
    /\ calc.out = <<"cuda", "float16">>
    /\ calc.again = <<"cuda", "float16">>

\* C17, as stated: resident_gb is table[model] x precision multiplier and
\* transient_gb is table[model] x max(0.2, audio_minutes) x
\* max(1.0, beam_size / 5), for every model, compute type, audio_minutes and
\* beam_size.  (Tables in tenths, minutes in tenths, results in mGB:
\* t/10 x m/10 x b/5 GB = 2 t m b mGB.)
C17_TransientIsProduct ==
    calc.op = "estimate" =>
        /\ calc.out.resident_gb =
              MODEL_RESIDENT_GB(calc.model_name) * COMPUTE_MULTIPLIER(calc.compute_type) * 10
        /\ calc.out.transient_gb =
              2 * TRANSIENT_PER_MIN_GB(calc.model_name) * Max(2, calc.audio_minutes)
                * Max(5, calc.beam_size)

\* C17, amended: resident_gb is table[model] x precision multiplier (1.0
\* for an unknown compute type) and transient_gb is the larger of 0.1 GB and
\* table[model] x max(0.2, audio_minutes) x max(1.0, beam_size / 5), unknown
\* models using resident 2.0 and transient 0.3 per minute; a beam below 5
\* gives the beam-5 value, and above the 0.1 GB floor the transient cost is
\* proportional to the beam for beam >= 5.
C17_TransientIsFlooredProduct ==
    calc.op = "estimate" =>
        LET product == 2 * TRANSIENT_PER_MIN_GB(calc.model_name)
                         * Max(2, calc.audio_minutes) * Max(5, calc.beam_size)
            at5     == estimate(calc.model_name, calc.compute_type,
                                calc.audio_minutes, 5)
        IN  /\ calc.out.resident_gb =
                  MODEL_RESIDENT_GB(calc.model_name)
                    * COMPUTE_MULTIPLIER(calc.compute_type) * 10
            /\ calc.out.transient_gb = Max(100, product)
            /\ calc.model_name = "whisper-x" =>
                  /\ calc.out.resident_gb = 200 * COMPUTE_MULTIPLIER(calc.compute_type)
                  /\ product = 6 * Max(2, calc.audio_minutes) * Max(5, calc.beam_size)
            /\ calc.compute_type = "bf16" =>
                  calc.out.resident_gb = 100 * MODEL_RESIDENT_GB(calc.model_name)
            /\ calc.beam_size < 5 => calc.out = at5
            /\ (calc.beam_size >= 5 /\ at5.transient_gb > 100) =>
                  5 * calc.out.transient_gb = calc.beam_size * at5.transient_gb

\* the estimate of a short audio, whose product is below the floor
C17_Witness ==
    /\ calc.op = "estimate"
    /\ calc.model_name = "base"
    /\ calc.audio_minutes = 2
    /\ calc.beam_size = 10
    /\ calc.out.transient_gb = 100

\* C18: transcribe_async sizes the request with duration_seconds / 60
\* minutes when options.duration_seconds is greater than 0 and with 1.0
\* minute when it is absent, zero or negative.  (out is in tenths of a
\* minute: out / 10 = duration_seconds / 60.)
C18_SizedByDuration ==
    calc.op = "sizing" =>
        IF calc.has_duration /\ calc.duration_seconds > 0
        THEN 60 * calc.out = 10 * calc.duration_seconds
        ELSE calc.out = 10

\* a zero duration_seconds, as the HTTP adapter passes for a query without
\* one, is sized as one minute
C18_Witness ==
    /\ calc.op = "sizing"
    /\ calc.has_duration
    /\ calc.duration_seconds = 0
    /\ calc.out = 10

\* C19: for a request that is not cancelled, the adapter answers 400
\* exactly when reading the upload fails, and then the facade is not
\* invoked; otherwise it invokes the facade and answers 503 when the facade
\* raises ResourceRejectedError or any other exception and 200 when it
\* returns.
C19_HttpStatus ==
    (calc.op = "http" /\ (calc.read_ok => calc.outcome # "CancelledError")) =>
        /\ calc.out.status \in {200, 400, 503}
        /\ calc.out.status = 400 <=> ~calc.read_ok
        /\ calc.out.invoked <=> calc.read_ok
        /\ calc.read_ok =>
              (calc.out.status = 200 <=> calc.outcome = "ok")
        /\ (calc.read_ok /\ calc.outcome # "ok") => calc.out.status = 503

\* the facade raised an inference error and the answer is 503
C19_Witness ==
    /\ calc.op = "http"
    /\ calc.read_ok
    /\ calc.outcome = "TranscriptionFailed"
    /\ calc.out.status = 503

\* C20: device "auto" resolves to cuda when is_cuda_available() reports a
\* GPU and to cpu when it does not; compute_type "auto" resolves to float16
\* when the resolved device is cuda and to float32 otherwise; every other
\* device or compute_type string comes back unchanged.
C20_AutoResolution ==
    calc.op = "resolve" =>
        LET d == calc.out[1]
            c == calc.out[2]
        IN  /\ calc.device = "auto" =>
                  /\ d = "cuda" <=> hw.cuda_available
                  /\ d = "cpu" <=> ~hw.cuda_available
            /\ calc.device # "auto" => d = calc.device
            /\ calc.compute_type = "auto" =>
                  c = IF d = "cuda" THEN "float16" ELSE "float32"
            /\ calc.compute_type # "auto" => c = calc.compute_type

\* on a machine without CUDA, ("cuda", "auto") keeps the device asked for
\* and takes float16 from it
C20_Witness ==
    /\ calc.op = "resolve"
    /\ ~hw.cuda_available
    /\ calc.device = "cuda"
    /\ calc.compute_type = "auto"
    /\ calc.out = <<"cuda", "float16">>

\* C21, as stated: the library's transcribe is only ever called for a request
\* that was admitted and got its model from the registry, whose key has a
\* published model, and that holds a permit of its key's semaphore at that
\* moment (acquire comes before, release after the worker's inference).
C21_InferenceUnderPermit ==
    [][\A r \in Reqs :
          worker'[r].lib_calls > worker[r].lib_calls =>
             /\ worker[r].model # 0
             /\ \E k \in DOMAIN models : models[k] = worker[r].model
             /\ task[r].holds]_vars

\* C22, as stated: the segments are consumed while the audio preparation
\* scope is open.
C22_SegmentsConsumedInScope ==
    \A r \in Reqs : worker[r].wpc = "collect" => worker[r].scope_open

\* C23, as stated: once the in-memory decode of a bytes input has succeeded,
\* the call creates no temp file, whatever happens in the scope afterwards.
C23_NoTempAfterDecode ==
    [][\A r \in Reqs :
          worker[r].in_decode_try =>
             /\ ~worker'[r].created_temp
             /\ r \notin disk']_vars

\* C24, as stated: a model under construction does not occupy the event
\* loop, so that other requests can run meanwhile.
C24_ConstructionOffLoop ==
    \A r \in Reqs : task[r].pc = "construct" => loop = {}

\* C25: the semaphores of different keys are independent.  A request that
\* comes to acquire goes on to its inference at once whenever its own key
\* has a permit left, however many permits of other keys are held; it waits
\* only when its own key has none; and taking the permit leaves the
\* semaphores of all other keys as they are.
C25_KeysIndependent ==
    [][\A r \in Reqs :
          (task[r].pc = "acquire" /\ task'[r].pc # "acquire"
             /\ task[r].key \in DOMAIN semaphores) =>
             /\ semaphores[task[r].key].value > 0 =>
                   /\ task'[r].pc = "await_worker"
                   /\ task'[r].holds
                   /\ worker'[r].wpc = "prepare"
             /\ task'[r].pc = "wait_sem" => semaphores[task[r].key].value = 0
             /\ \A k \in DOMAIN semaphores \ {task[r].key} :
                   semaphores'[k] = semaphores[k]]_vars

\* all permits of the first request's key are held by its inference in
\* flight, and the second request, on another key, holds a permit of its
\* own and has been dispatched
C25_Witness ==
    /\ task[1].holds /\ task[2].holds
    /\ task[1].key # task[2].key
    /\ semaphores[task[1].key].value = 0
    /\ worker[1].wpc \in {"prepare", "transcribe", "collect"}
    /\ worker[2].wpc = "prepare"

\* C26, as stated, for the behaviours in which no constructor invocation
\* raises: for requests on the same key the constructor is invoked once in
\* total, and two worker-side inferences on the key's model are in flight
\* together only when the capacity installed from the concurrency hint is
\* at least 2 (with capacity 1 the second starts after the first has
\* finished).
C26_OverlapOnlyWithinHint ==
    (\A i \in 1..Len(ctor_log) : ctor_log[i].ok) =>
        \A k \in DOMAIN semaphores :
            /\ Cardinality({i \in 1..Len(ctor_log) : ctor_log[i].key = k}) <= 1
            /\ Cardinality(InFlight(k)) >= 2 => semaphores[k].capacity >= 2

\* C27, as stated: while the probe keeps returning the snapshot of the first
\* load, the resident estimate of a key's model plus the transient
\* estimates of the inferences its semaphore lets run together (the request
\* that loaded the model and, up to the capacity, admitted later requests)
\* stays within free - margin of that snapshot.
C27_NoOverCommitInSteadyState ==
    (calc.op = "steady_state" /\ ~calc.first.raised /\ ~calc.second.raised) =>
        LET budget == IF calc.device = "cuda"
                      THEN Max(0, calc.snap.gpu_free_gb - GPU_VRAM_MARGIN_GB)
                      ELSE Max(0, calc.snap.ram_available_gb - CPU_RAM_MARGIN_GB)
        IN  calc.first.est.resident_gb + calc.first.est.transient_gb
              + (calc.capacity - 1) * calc.second.est.transient_gb <= budget

\* C28, as stated: the snapshot carried by a ResourceRejectedError is the
\* snapshot can_accept evaluated when it turned the request away, also when
\* the hardware readings change between probes.
C28_SnapshotAtDecisionTime ==
    \A r \in Reqs :
        task[r].outcome = "ResourceRejectedError" =>
            task[r].snapshot = task[r].decided_on

\* C29, as stated: on a device that is there, concurrency_hint returns the
\* device default (DEFAULT_GPU_CONCURRENCY on cuda, DEFAULT_CPU_CONCURRENCY
\* otherwise) when the estimate's transient cost is zero, and
\* max(1, floor((free - margin) / transient)) when it is not.
C29_HintFallsBackToDefault ==
    (calc.op = "concurrency_hint"
       /\ (calc.device = "cuda" => calc.snap.gpu_present)) =>
        LET budget == IF calc.device = "cuda"
                      THEN Max(0, calc.snap.gpu_free_gb - GPU_VRAM_MARGIN_GB)
                      ELSE Max(0, calc.snap.ram_available_gb - CPU_RAM_MARGIN_GB)
        IN  IF calc.est.transient_gb = 0
            THEN calc.out = IF calc.device = "cuda" THEN DEFAULT_GPU_CONCURRENCY
                            ELSE DEFAULT_CPU_CONCURRENCY
            ELSE calc.out = Max(1, budget \div calc.est.transient_gb)

\* C30, as stated: once get_or_create has published the model of a key with
\* concurrency c >= 1, get_semaphore of the key returns a semaphore of
\* capacity c, whether or not get_semaphore was called for the key before.
C30_CapacityIsPublishedConcurrency ==
    (calc.op = "registry" /\ calc.concurrency >= 1) =>
        calc.out.capacity = calc.concurrency

\* C31: the registry's models map only grows.  A key once published stays
\* in the map with the same model reference through every step (so
\* is_loaded of the key stays true), and every get_or_create that returns
\* for a published key returns the reference the map holds.
C31_ModelsOnlyGrow ==
    [][/\ \A k \in DOMAIN models :
             k \in DOMAIN models' /\ models'[k] = models[k]
       /\ \A r \in Reqs :
             (task[r].model = 0 /\ task'[r].model # 0) =>
                /\ task'[r].key \in DOMAIN models'
                /\ task'[r].model = models'[task'[r].key]
                /\ task[r].pc # "construct" =>
                      /\ task'[r].key \in DOMAIN models
                      /\ task'[r].model = models[task'[r].key]]_vars

\* the first call has constructed the model and ended; the second, finding
\* the key loaded at admission, has got the same reference from
\* get_or_create
C31_Witness ==
    /\ task[1].pc = "done"
    /\ Len(ctor_log) = 1 /\ ctor_log[1].by = 1 /\ ctor_log[1].ok
    /\ task[2].pc = "acquire"
    /\ task[2].key \in DOMAIN models
    /\ task[2].model = models[task[2].key]
    /\ task[2].model = 1

\* C32: the lazy insertion of build locks and semaphores is race-safe.  An
\* entry once installed for a key is never installed again: the key keeps
\* its lock and its semaphore (same capacity, permits changed only by the
\* acquire or release of one call) through every step, so all calls on the
\* key meet in the same objects; a key's lock is held exactly while one call
\* constructs its model.
C32_OneLockOneSemaphorePerKey ==
    /\ [](\A k \in DOMAIN locks :
             Cardinality({r \in Reqs : task[r].pc = "construct" /\ task[r].key = k})
                = IF locks[k] THEN 1 ELSE 0)
    /\ [][/\ DOMAIN locks \subseteq DOMAIN locks'
          /\ \A k \in DOMAIN semaphores :
                /\ k \in DOMAIN semaphores'
                /\ semaphores'[k].capacity = semaphores[k].capacity
                /\ semaphores'[k].value - semaphores[k].value
                      = Cardinality(Holders(k)) - Cardinality(Holders(k)')]_vars

\* the second call has asked get_semaphore for a key whose semaphore the
\* first call's get_or_create installed, and waits on that same semaphore,
\* whose only permit the first call holds
C32_Witness ==
    /\ task[1].holds /\ task[1].pc = "await_worker"
    /\ task[2].pc = "wait_sem"
    /\ task[2].key = task[1].key
    /\ task[1].key \in DOMAIN locks \cap DOMAIN semaphores
    /\ semaphores[task[1].key] = [value |-> 0, capacity |-> 1]

\* C33: an array of other than one dimension fails with ValueError and an
\* input of unsupported type with TypeError, a path that does not exist
\* with FileNotFoundError; in each case the worker returns from the
\* preparation step itself, the library's transcribe has not been invoked,
\* no temp file has been created and the disk is as it was; and a call that
\* ends with one of these errors has left no library call and no temp file
\* behind.
C33_BadInputFailsBeforeTranscribe ==
    /\ [][\A r \in Reqs :
             (worker[r].wpc = "prepare" /\ worker'[r] # worker[r]) =>
                /\ worker[r].audio_input \in {"array_2d", "object"} =>
                      /\ worker'[r].wpc = "finished"
                      /\ worker'[r].result =
                            IF worker[r].audio_input = "array_2d"
                            THEN "ValueError" ELSE "TypeError"
                /\ (worker[r].audio_input = "path" /\ worker'[r].wpc = "finished") =>
                      worker'[r].result = "FileNotFoundError"
                /\ worker'[r].result \in {"ValueError", "TypeError", "FileNotFoundError"} =>
                      /\ worker'[r].lib_calls = 0
                      /\ ~worker'[r].created_temp
                      /\ disk' = disk]_vars
    /\ [](\A r \in Reqs :
             task[r].outcome \in {"ValueError", "TypeError", "FileNotFoundError"} =>
                /\ worker[r].lib_calls = 0
                /\ ~worker[r].created_temp
                /\ r \notin disk)

\* one call was given a two-dimensional array and has ended with
\* ValueError, the other a path to a file that is not there and has ended
\* with FileNotFoundError; the library's transcribe was not invoked
C33_Witness ==
    /\ task[1].outcome = "ValueError"
    /\ task[2].outcome = "FileNotFoundError"
    /\ \A r \in Reqs : worker[r].wpc = "finished" /\ worker[r].lib_calls = 0
    /\ disk = {}

\* C34: under fair scheduling, with constructions and inferences that
\* terminate, every call that has passed admission ends, and in the end all
\* calls have ended and every permit is back in its semaphore: no call
\* waits forever for a build lock or a semaphore.
C34_AdmittedRequestsFinish ==
    <>[](/\ \A r \in Reqs : task[r].pc = "done"
         /\ \A k \in DOMAIN semaphores :
               semaphores[k].value = semaphores[k].capacity)

\* both calls, on the same key, have ended after their inferences ran, one
\* after the other through the key's only permit; the permit is back
C34_Witness ==
    /\ \A r \in Reqs : /\ task[r].pc = "done"
                       /\ task[r].outcome \in {"ok", "TranscriptionFailed"}
                       /\ worker[r].lib_calls = 1
    /\ Len(ctor_log) = 1
    /\ \A k \in DOMAIN semaphores : semaphores[k] = [value |-> 1, capacity |-> 1]

\* C35: from the is_loaded probe to the entry of get_or_create a call has
\* the event loop to itself.  All the while the is_loaded it is charged
\* with is the loaded status of its key in the registry; no step in between
\* changes the models map or another call's task.
C35_LoadedStatusStable ==
    /\ [](\A r \in Reqs :
             task[r].pc \in {"admit", "hint", "get_or_create"} =>
                /\ loop = {r}
                /\ task[r].is_loaded =
                      InModels(_key(task[r].model_name, task[r].device,
                                    task[r].compute_type, hw.cuda_available)))
    /\ [][\A r \in Reqs :
             task[r].pc \in {"admit", "hint"} =>
                /\ models' = models
                /\ \A q \in Reqs \ {r} : task'[q] = task[q]]_vars

\* the second call enters get_or_create charged as loaded, for the key
\* whose model the first call, still at its inference, has loaded
C35_Witness ==
    /\ task[1].pc = "await_worker"
    /\ worker[1].wpc = "transcribe"
    /\ task[2].pc = "get_or_create"
    /\ task[2].is_loaded
    /\ _key(task[2].model_name, task[2].device, task[2].compute_type,
            hw.cuda_available) = task[1].key

\* C36, as stated: the resident estimate a call was admitted on is the one
\* of the compute type of the key under which its model is constructed,
\* whatever device and compute_type strings the caller passed.
C36_EstimateForKeyComputeType ==
    \A r \in Reqs :
        task[r].pc = "construct" =>
            task[r].est.resident_gb =
                estimate(task[r].key.model_name, task[r].key.compute_type,
                         task[r].audio_minutes, task[r].beam_size).resident_gb

\* C37: start_recording called while is_recording is true is a no-op.  The
\* call returns at once: no stream is opened, and is_recording, the stream
\* and the collected frames are as they were.
C37_StartWhileRecordingIsNoOp ==
    [][(/\ is_recording
        /\ mic_ctl.pc = "idle"
        /\ mic_ctl'.calls = mic_ctl.calls + 1
        /\ mic_ctl'.op = "start_recording") =>
           /\ mic_ctl'.pc = "idle"
           /\ mic_ctl'.returned = "None"
           /\ pa_streams' = pa_streams
           /\ is_recording'
           /\ stream' = stream
           /\ frames' = frames]_vars

\* a recording is on, with a chunk collected, and the second call, a
\* start_recording again, has returned: there is still one stream
C37_Witness ==
    /\ is_recording
    /\ mic_ctl.pc = "idle"
    /\ mic_ctl.op = "start_recording"
    /\ mic_ctl.calls = 2
    /\ Len(pa_streams) = 1 /\ stream = 1
    /\ pa_streams[1].status = "active"
    /\ frames # <<>>

\* C38: stop_recording while recording stops and closes the stream, sets
\* is_recording to false and returns the collected frames joined in the
\* order they arrived (the bytes of an earlier chunk before those of a
\* later one, none left out); while not recording it returns empty bytes
\* and changes neither the stream, the opened streams, is_recording nor the
\* frames.
C38_StopReturnsFramesInOrder ==
    [][(/\ mic_ctl.pc = "idle"
        /\ mic_ctl'.calls = mic_ctl.calls + 1
        /\ mic_ctl'.op = "stop_recording") =>
           /\ mic_ctl'.pc = "idle"
           /\ mic_ctl'.returned = "bytes"
           /\ IF is_recording
              THEN /\ stream # 0
                   /\ pa_streams'[stream].status = "closed"
                   /\ ~is_recording'
                   /\ mic_ctl'.data = Join(frames)
                   /\ \A i, j \in DOMAIN mic_ctl'.data :
                         i < j => mic_ctl'.data[i] <= mic_ctl'.data[j]
              ELSE /\ mic_ctl'.data = <<>>
                   /\ pa_streams' = pa_streams
                   /\ stream' = stream
                   /\ is_recording' = is_recording
                   /\ frames' = frames]_vars

\* a recording in which two chunks arrived has been stopped: the stream is
\* closed and the call returned the bytes of the first chunk followed by
\* those of the second
C38_Witness ==
    /\ mic_ctl.pc = "idle"
    /\ mic_ctl.op = "stop_recording"
    /\ mic_ctl.calls = 2
    /\ ~is_recording
    /\ stream = 1 /\ pa_streams[1].status = "closed"
    /\ mic_ctl.data = Payload(1) \o Payload(2)

\* the bytes a occur in the bytes b, in their order
RECURSIVE IsSubSeq(_, _)
IsSubSeq(a, b) ==
    IF a = <<>> THEN TRUE
    ELSE IF b = <<>> THEN FALSE
    ELSE IF Head(a) = Head(b) THEN IsSubSeq(Tail(a), Tail(b))
    ELSE IsSubSeq(a, Tail(b))

\* C39, as stated: in a session without a user callback, every chunk the
\* audio thread has delivered to the stream callback since the stream was
\* opened is contained, in delivery order, in the bytes the matching
\* stop_recording returns.
C39_NoChunkLost ==
    [][(/\ is_recording
        /\ mic_ctl.pc = "idle"
        /\ mic_ctl'.calls = mic_ctl.calls + 1
        /\ mic_ctl'.op = "stop_recording"
        /\ stream # 0
        /\ ~pa_streams[stream].callback) =>
           IsSubSeq(Join(pa_streams[stream].delivered), mic_ctl'.data)]_vars

====
